---- MODULE Spec2Model ----
(***************************************************************************)
(* ScrollyTeller: the scroll narrative orchestrator.                       *)
(*                                                                         *)
(* The model follows src/src/ScrollyTeller/ScrollyTeller.js (constructor,  *)
(* render(), _buildSections, _buildScrollamaContainers, _buildGraphs and   *)
(* the three scroll handlers) and the section configuration of             *)
(* src/unnamed/part_000 (reshapeDataFunction, buildGraphFunction,          *)
(* onScrollFunction, onActivateNarrationFunction).                         *)
(*                                                                         *)
(* The utilities imported from './utils/index' (fetchNarration,            *)
(* fetchDataAndProcessResults, buildSectionWithNarration), CSSNames and    *)
(* the scrollama observer are not part of the sources at hand; they are    *)
(* modelled from the specification text (sections 4.1, 4.3, 5 and 7).      *)
(***************************************************************************)
EXTENDS Integers, Sequences, FiniteSets, TLC

(***************************************************************************)
(* Bounds                                                                  *)
(***************************************************************************)
\* number of sections in config.sectionList
NumSections == 2
\* number of narration rows (= narration blocks = scrollama steps) per section
NumSteps == 2

Sections == 1..NumSections
\* scrollama step indices are 0-based, like the narration array
StepIndex == 0..(NumSteps - 1)

\* scrollama directions
Directions == {"up", "down"}
\* progress values reported by the observer, in percent of the step height;
\* 150 stands for a report outside [0,1] ("0-1 (sort of)", part_000:13)
ProgressValues == {50, 150}

(***************************************************************************)
(* JavaScript values                                                       *)
(***************************************************************************)
Undefined == [kind |-> "undefined"]
PathTo(file) == [kind |-> "path", file |-> file]
PromiseOf(file) == [kind |-> "promise", file |-> file]
ArrayOf(rows) == [kind |-> "array", rows |-> rows]
IsArray(v) == v.kind = "array"
Bool(b) == [kind |-> "boolean", value |-> b]
Str(v) == [kind |-> "string", value |-> v]
\* a CSSNames object: the one the user passed in, or new CSSNames()
CSSNamesObject(origin) == [kind |-> "CSSNames", origin |-> origin]
IsUndefined(v) == v.kind = "undefined"

\* One narration row.  A row may lack the trigger column; reading its
\* trigger then gives undefined, written "undefined" here.
Row(hasTrigger, trigger) == [hasTrigger |-> hasTrigger, trigger |-> trigger]

\* the rows of a narration source: row i carries a trigger, except that the
\* rows of "noTrigger" sources have no trigger column at all
NarrationRows(file) ==
  [i \in 1..NumSteps |->
     IF file = "noTrigger" THEN Row(FALSE, "undefined")
     ELSE IF i = 1 THEN Row(TRUE, "year:1950") ELSE Row(TRUE, "yearProgress:1")]

\* the records of a data source: one record per region
DataRows(file) ==
  IF file = "empty" THEN <<>>
  ELSE << [region |-> "Asia", years |-> <<1950, 2008>>],
          [region |-> "Europe", years |-> <<1960, 2000>>],
          [region |-> "Asia", years |-> <<1955, 1990>>] >>

(***************************************************************************)
(* CSSNames (external collaborator): identifiers derived from the          *)
(* sectionIdentifier.                                                      *)
(***************************************************************************)
sectionId(sectionIdentifier) == <<"section", sectionIdentifier>>
graphId(sectionIdentifier) == <<"graph", sectionIdentifier>>

(***************************************************************************)
(* Section configurations handed to the constructor.                       *)
(*   healthAndWealth : the configuration of part_000                       *)
(*   literal         : literal narration array, no data, no callbacks      *)
(*   promised        : narration and data given as promises, callbacks     *)
(*                     that accept the documented argument object          *)
(*   brokenGraph     : like promised with literal arrays, but its          *)
(*                     buildGraphFunction throws                           *)
(***************************************************************************)
healthAndWealth ==
  [ narration |-> PathTo("narration.csv"),
    data |-> PathTo("wealthAndHealthData.json"),
    showSpacers |-> Undefined,
    useDefaultGraphCSS |-> Undefined,
    convertTriggerToObject |-> TRUE,
    reshapeDataFunction |-> "processData",
    buildGraphFunction |-> "buildGraph",
    onScrollFunction |-> "onScroll",
    onActivateNarrationFunction |-> "onActivateNarration" ]

literal ==
  [ narration |-> ArrayOf(NarrationRows("noTrigger")),
    data |-> Undefined,
    showSpacers |-> Bool(FALSE),
    useDefaultGraphCSS |-> Undefined,
    convertTriggerToObject |-> FALSE,
    reshapeDataFunction |-> "undefined",
    buildGraphFunction |-> "userBuildGraph",
    onScrollFunction |-> "undefined",
    onActivateNarrationFunction |-> "undefined" ]

promised ==
  [ narration |-> PromiseOf("narration"),
    data |-> PromiseOf("data"),
    showSpacers |-> Undefined,
    useDefaultGraphCSS |-> Bool(FALSE),
    convertTriggerToObject |-> FALSE,
    reshapeDataFunction |-> "undefined",
    buildGraphFunction |-> "userBuildGraph",
    onScrollFunction |-> "userOnScroll",
    onActivateNarrationFunction |-> "userOnActivate" ]

brokenGraph ==
  [ narration |-> ArrayOf(NarrationRows("narration")),
    data |-> ArrayOf(DataRows("data")),
    showSpacers |-> Undefined,
    useDefaultGraphCSS |-> Undefined,
    convertTriggerToObject |-> FALSE,
    reshapeDataFunction |-> "undefined",
    buildGraphFunction |-> "throwingBuildGraph",
    onScrollFunction |-> "userOnScroll",
    onActivateNarrationFunction |-> "userOnActivate" ]

\* the section lists handed to the constructor: the four configurations in
\* each cyclic order, so that every configuration occurs at every position
ConfigOrder == <<healthAndWealth, literal, promised, brokenGraph>>
SectionLists ==
  { [s \in Sections |-> ConfigOrder[((s + k) % Len(ConfigOrder)) + 1]] :
      k \in 1..Len(ConfigOrder) }

(***************************************************************************)
(* State                                                                   *)
(***************************************************************************)
VARIABLES
  config,        \* the config object handed to the constructor (without its
                 \* sectionList, which is the variable below)
  teller,        \* the ScrollyTeller instance: this.appContainerId, this.cssNames
  sectionList,   \* this.sectionList: section -> its SectionConfig object
  pc,            \* position of the constructor and of render()
  narrationFetch,\* per section: state of its narration resolution
  dataFetch,     \* per section: state of its data resolution
  settled,       \* the sections whose resolution of the current phase has
                 \* settled, in the order they settled
  renderError,   \* what render()'s promise rejected with
  sectionBuilt,  \* per section: DOM scaffolding built by buildSectionWithNarration
  active,        \* per narration block: the element carries class 'active'
  stepState,     \* per step: the observer's own state, "idle" or "enter"
  lastEvent,     \* the scroll event handled last
  calls,         \* the callback invocations made while handling lastEvent
  threw,         \* the handler of lastEvent let an exception escape
  activated      \* per step: the enter handler dispatched the activation
                 \* callback since the step's last exit

vars == <<config, teller, sectionList, pc, narrationFetch, dataFetch, settled,
          renderError, sectionBuilt, active, stepState, lastEvent, calls,
          threw, activated>>

NoEvent == [kind |-> "none", section |-> 0, index |-> 0,
            direction |-> "down", progress |-> 0]

NoError == [kind |-> "none", section |-> 0]

\* a section config object as the user wrote it: the properties the
\* orchestrator assigns later are still undefined
NewSection(s, section) ==
  [ sectionIdentifier |-> s,
    narration |-> section.narration,
    data |-> section.data,
    showSpacers |-> section.showSpacers,
    useDefaultGraphCSS |-> section.useDefaultGraphCSS,
    convertTriggerToObject |-> section.convertTriggerToObject,
    reshapeDataFunction |-> section.reshapeDataFunction,
    buildGraphFunction |-> section.buildGraphFunction,
    onScrollFunction |-> section.onScrollFunction,
    onActivateNarrationFunction |-> section.onActivateNarrationFunction,
    appContainerId |-> Undefined,
    cssNames |-> Undefined,
    graph |-> Undefined,
    scroller |-> Undefined ]

\* the configs handed to the constructor.  Valid ones: every section list
\* of SectionLists, with and without a cssNames object of the user.
ValidConfigs ==
  { [ appContainerId |-> Str("app"),
      cssNames |-> IF IsArray(list[1].narration)
                     THEN CSSNamesObject("config") ELSE Undefined,
      sectionList |-> [s \in Sections |-> NewSection(s, list[s])] ] :
      list \in SectionLists }

\* Invalid ones: two sections with the same sectionIdentifier, no
\* appContainerId, a section without narration.
InvalidConfigs ==
  { [ appContainerId |-> Str("app"),
      cssNames |-> Undefined,
      sectionList |-> [s \in Sections |-> NewSection(1, promised)] ],
    [ appContainerId |-> Undefined,
      cssNames |-> Undefined,
      sectionList |-> [s \in Sections |-> NewSection(s, literal)] ],
    [ appContainerId |-> Str("app"),
      cssNames |-> CSSNamesObject("config"),
      sectionList |-> [s \in Sections |->
         [NewSection(s, promised) EXCEPT !.narration = Undefined]] ] }

\* new ScrollyTeller(config) is about to run
Init ==
  /\ \E c \in ValidConfigs \cup InvalidConfigs :
       /\ config = [appContainerId |-> c.appContainerId, cssNames |-> c.cssNames]
       /\ sectionList = c.sectionList
  /\ teller = [appContainerId |-> Undefined, cssNames |-> Undefined]
  /\ pc = "new"
  /\ narrationFetch = [s \in Sections |-> "unstarted"]
  /\ dataFetch = [s \in Sections |-> "unstarted"]
  /\ settled = <<>>
  /\ renderError = NoError
  /\ sectionBuilt = [s \in Sections |-> FALSE]
  /\ active = [s \in Sections |-> [i \in StepIndex |-> FALSE]]
  /\ stepState = [s \in Sections |-> [i \in StepIndex |-> "idle"]]
  /\ lastEvent = NoEvent
  /\ calls = <<>>
  /\ threw = FALSE
  /\ activated = [s \in Sections |-> [i \in StepIndex |-> FALSE]]

eventVars == <<active, stepState, lastEvent, calls, threw, activated>>
ctorVars == <<config, teller>>

(***************************************************************************)
(* new ScrollyTeller(config)                                               *)
(***************************************************************************)
\* validateScrollyTellerConfig(config) returns without throwing: the
\* required fields are there and the section identifiers are unique
ValidConfig(cfg, sections) ==
  /\ ~IsUndefined(cfg.appContainerId)
  /\ \A s \in Sections : ~IsUndefined(sections[s].narration)
  /\ \A s, u \in Sections :
       s # u => sections[s].sectionIdentifier # sections[u].sectionIdentifier

\* lines 32-36: the user's cssNames if it is a CSSNames, else a new one
CssNamesOf(cfg) ==
  IF IsUndefined(cfg.cssNames) \/ cfg.cssNames.kind # "CSSNames"
    THEN CSSNamesObject("default")
    ELSE cfg.cssNames

\* the body of the forEach of _assignConfigVariablesToSectionConfigs
AssignConfigVariables(section, appContainerId, cssNames) ==
  [section EXCEPT
     !.showSpacers = IF IsUndefined(section.showSpacers)
                       THEN Bool(TRUE) ELSE section.showSpacers,
     !.useDefaultGraphCSS = IF IsUndefined(section.useDefaultGraphCSS)
                              THEN Bool(TRUE) ELSE section.useDefaultGraphCSS,
     !.appContainerId = appContainerId,
     !.cssNames = cssNames]

\* a constructor that assigns to the sections before it validates
ConstructorAssignsFirst ==
  /\ pc = "new"
  /\ sectionList' = [s \in Sections |->
       AssignConfigVariables(sectionList[s], config.appContainerId, CssNamesOf(config))]
  /\ IF ValidConfig(config, sectionList)
       THEN /\ teller' = [appContainerId |-> config.appContainerId,
                          cssNames |-> CssNamesOf(config)]
            /\ pc' = "constructed"
       ELSE /\ pc' = "invalid"
            /\ UNCHANGED teller
  /\ UNCHANGED <<config, narrationFetch, dataFetch, settled, renderError,
                 sectionBuilt, eventVars>>

\* constructor(config): validation first; when it throws nothing else runs
Constructor ==
  /\ pc = "new"
  /\ IF ValidConfig(config, sectionList)
       THEN /\ teller' = [appContainerId |-> config.appContainerId,
                          cssNames |-> CssNamesOf(config)]
            /\ sectionList' = [s \in Sections |->
                 AssignConfigVariables(sectionList[s], config.appContainerId,
                                       CssNamesOf(config))]
            /\ pc' = "constructed"
       ELSE /\ pc' = "invalid"
            /\ UNCHANGED <<teller, sectionList>>
  /\ UNCHANGED <<config, narrationFetch, dataFetch, settled, renderError,
                 sectionBuilt, eventVars>>

(***************************************************************************)
(* render(), first suspension point: await fetchNarration(sectionList)     *)
(***************************************************************************)
\* render() is called: fetchNarration starts the resolution of every
\* section's narration at once
RenderStart ==
  /\ pc = "constructed"
  /\ pc' = "fetchNarration"
  /\ narrationFetch' = [s \in Sections |-> "pending"]
  /\ UNCHANGED <<ctorVars, sectionList, dataFetch, settled, renderError,
                 sectionBuilt, eventVars>>

\* what a narration source resolves to
ResolveNarration(source) ==
  IF IsArray(source) THEN source ELSE ArrayOf(NarrationRows(source.file))

\* the narration resolution of section s settles; a literal array cannot fail
NarrationSettle(s, ok) ==
  /\ pc = "fetchNarration"
  /\ narrationFetch[s] = "pending"
  /\ ok \/ ~IsArray(sectionList[s].narration)
  /\ IF ok
       THEN /\ narrationFetch' = [narrationFetch EXCEPT ![s] = "resolved"]
            /\ sectionList' = [sectionList EXCEPT
                 ![s].narration = ResolveNarration(sectionList[s].narration)]
       ELSE /\ narrationFetch' = [narrationFetch EXCEPT ![s] = "failed"]
            /\ UNCHANGED sectionList
  /\ settled' = Append(settled, s)
  /\ UNCHANGED <<ctorVars, pc, dataFetch, renderError, sectionBuilt, eventVars>>

AllSettled(fetch) == \A s \in Sections : fetch[s] \in {"resolved", "failed"}
AllResolved(fetch) == \A s \in Sections : fetch[s] = "resolved"

\* render() without the first await
NarrationNotAwaited == TRUE

\* the condition under which render() goes on to the data: the awaited
\* fetchNarration fulfilled, i.e. every section's narration resolved
NarrationAwaited == AllResolved(narrationFetch)

\* the error a fetch rejects with: that of the resolution that failed first
FirstError(fetch) ==
  LET failed == {k \in 1..Len(settled) : fetch[settled[k]] = "failed"}
      first == CHOOSE k \in failed : \A j \in failed : k <= j
  IN [kind |-> "fetch", section |-> settled[first]]

\* a fetch whose promise rejects with the first failure, without waiting
\* for the resolutions still in flight
FetchSettledAtFirstFailure(fetch) ==
  AllResolved(fetch) \/ \E s \in Sections : fetch[s] = "failed"

\* the promise of fetchNarration / fetchDataAndProcessResults has settled:
\* every resolution of the phase has
FetchSettled(fetch) == AllSettled(fetch)

\* render() resumes after the first await
RenderAfterNarration ==
  /\ pc = "fetchNarration"
  /\ FetchSettled(narrationFetch) \/ NarrationAwaited
  /\ IF NarrationAwaited
       THEN /\ pc' = "fetchData"
            /\ dataFetch' = [s \in Sections |-> "pending"]
            /\ settled' = <<>>
            /\ UNCHANGED renderError
       ELSE /\ pc' = "rejected"
            /\ renderError' = FirstError(narrationFetch)
            /\ UNCHANGED <<dataFetch, settled>>
  /\ UNCHANGED <<ctorVars, sectionList, narrationFetch, sectionBuilt, eventVars>>

(***************************************************************************)
(* reshapeDataFunction of part_000                                         *)
(***************************************************************************)
RECURSIVE UniqueRegions(_, _)
\* results.reduce((acc, d) => acc.includes(d.region) ? acc : acc.concat(d.region), [])
UniqueRegions(rows, acc) ==
  IF rows = <<>> THEN acc
  ELSE LET d == Head(rows)
       IN UniqueRegions(Tail(rows),
            IF \E k \in 1..Len(acc) : acc[k] = d.region
              THEN acc ELSE Append(acc, d.region))

Min2(a, b) == IF a <= b THEN a ELSE b
Max2(a, b) == IF a >= b THEN a ELSE b

RECURSIVE YearExtent(_, _)
\* extent(results.reduce((acc, d) => acc.concat(...extent(d.years)), []))
YearExtent(rows, acc) ==
  IF rows = <<>> THEN acc
  ELSE LET d == Head(rows)
       IN YearExtent(Tail(rows),
            << Min2(acc[1], Min2(d.years[1], d.years[2])),
               Max2(acc[2], Max2(d.years[1], d.years[2])) >>)

\* a reshape function that hands the resolved array back unchanged
processDataIdentity(results) == results

\* processData(results): the raw data under dataArray, the legend and the
\* year domain (rDomain, xDomain and yDomain are computed like yearDomain
\* from columns the model does not carry)
processData(results) ==
  [ kind |-> "object",
    dataArray |-> results,
    legendArray |-> ArrayOf(UniqueRegions(results.rows, <<>>)),
    yearDomain |-> YearExtent(Tail(results.rows),
                     << Min2(results.rows[1].years[1], results.rows[1].years[2]),
                        Max2(results.rows[1].years[1], results.rows[1].years[2]) >>) ]

(***************************************************************************)
(* render(), second suspension point:                                      *)
(* await fetchDataAndProcessResults(sectionList)                           *)
(***************************************************************************)
\* what a data source resolves to: an undefined source is an empty array
ResolveData(source) ==
  IF IsArray(source) THEN source
  ELSE IF source.kind = "undefined" THEN ArrayOf(<<>>)
  ELSE ArrayOf(DataRows(source.file))

\* the resolved data, passed through the section's reshapeDataFunction
ProcessResults(sectionConfig) ==
  IF sectionConfig.reshapeDataFunction = "processData"
    THEN processData(ResolveData(sectionConfig.data))
    ELSE ResolveData(sectionConfig.data)

\* the data resolution of section s settles; only a path or promise can fail
DataSettle(s, ok) ==
  /\ pc = "fetchData"
  /\ dataFetch[s] = "pending"
  /\ ok \/ sectionList[s].data.kind \in {"path", "promise"}
  /\ IF ok
       THEN /\ dataFetch' = [dataFetch EXCEPT ![s] = "resolved"]
            /\ sectionList' = [sectionList EXCEPT
                 ![s].data = ProcessResults(sectionList[s])]
       ELSE /\ dataFetch' = [dataFetch EXCEPT ![s] = "failed"]
            /\ UNCHANGED sectionList
  /\ settled' = Append(settled, s)
  /\ UNCHANGED <<ctorVars, pc, narrationFetch, renderError, sectionBuilt, eventVars>>

\* render() without the second await
DataNotAwaited == TRUE

\* render() going on although a resolution failed
DataAwaitedIgnoringFailure == AllSettled(dataFetch)

\* the condition under which render() goes on to build: the awaited
\* fetchDataAndProcessResults fulfilled, i.e. every section's data resolved
DataAwaited == AllResolved(dataFetch)

\* render() resumes after the second await
RenderAfterData ==
  /\ pc = "fetchData"
  /\ FetchSettled(dataFetch) \/ DataAwaited
  /\ IF DataAwaited
       THEN /\ pc' = "buildSections"
            /\ settled' = <<>>
            /\ UNCHANGED renderError
       ELSE /\ pc' = "rejected"
            /\ renderError' = FirstError(dataFetch)
            /\ UNCHANGED settled
  /\ UNCHANGED <<ctorVars, sectionList, narrationFetch, dataFetch, sectionBuilt,
                 eventVars>>

(***************************************************************************)
(* render(), the synchronous tail: lines 123-125                           *)
(***************************************************************************)
\* _buildSections: forEach(sectionList, buildSectionWithNarration)
BuildSections ==
  /\ pc = "buildSections"
  /\ sectionBuilt' = [s \in Sections |-> TRUE]
  /\ pc' = "buildScrollama"
  /\ UNCHANGED <<ctorVars, sectionList, narrationFetch, dataFetch, settled,
                 renderError, eventVars>>

\* scrollama().setup({step, container, graphic, offset: 0.5, progress: true})
Scrollama(sectionIdentifier) ==
  [ kind |-> "scrollama",
    container |-> sectionId(sectionIdentifier),
    graphic |-> graphId(sectionIdentifier),
    progress |-> TRUE ]

\* _buildScrollamaContainers: every section gets its scroller
BuildScrollamaContainers ==
  /\ pc = "buildScrollama"
  /\ sectionList' = [s \in Sections |->
       [sectionList[s] EXCEPT !.scroller = Scrollama(sectionList[s].sectionIdentifier)]]
  /\ pc' = "buildGraphs"
  /\ UNCHANGED <<ctorVars, narrationFetch, dataFetch, settled, renderError,
                 sectionBuilt, eventVars>>

\* buildGraphFunction(graphId, config): the handle it returns
BuildGraph(id, sectionConfig) == [kind |-> "graph", container |-> id]

GraphThrows(s) == sectionList[s].buildGraphFunction = "throwingBuildGraph"

\* a _buildGraphs that builds the graph of the first section only
BuildGraphsFirstOnly ==
  /\ pc = "buildGraphs"
  /\ sectionList' = [sectionList EXCEPT
       ![1].graph = BuildGraph(graphId(sectionList[1].sectionIdentifier),
                               sectionList[1])]
  /\ pc' = "resolved"
  /\ UNCHANGED <<ctorVars, narrationFetch, dataFetch, settled, renderError,
                 sectionBuilt, eventVars>>

\* _buildGraphs: forEach in list order; an exception of a buildGraphFunction
\* ends the loop and rejects render()
BuildGraphs ==
  /\ pc = "buildGraphs"
  /\ sectionList' = [s \in Sections |->
       IF \E t \in Sections : t <= s /\ GraphThrows(t)
         THEN sectionList[s]
         ELSE [sectionList[s] EXCEPT
                 !.graph = BuildGraph(graphId(sectionList[s].sectionIdentifier),
                                      sectionList[s])]]
  /\ IF \E t \in Sections : GraphThrows(t)
       THEN /\ pc' = "rejected"
            /\ renderError' =
                 [kind |-> "buildGraph",
                  section |-> CHOOSE t \in Sections :
                    GraphThrows(t) /\ \A u \in Sections : GraphThrows(u) => t <= u]
       ELSE /\ pc' = "resolved"
            /\ UNCHANGED renderError
  /\ UNCHANGED <<ctorVars, narrationFetch, dataFetch, settled, sectionBuilt,
                 eventVars>>

(***************************************************************************)
(* Callbacks of the section configurations                                 *)
(***************************************************************************)
\* graph.render({year, duration}) on a graph handle; calling it on an
\* undefined graph is a TypeError
GraphRender(graph, year, duration) ==
  IF graph.kind = "graph"
    THEN [threw |-> FALSE, renders |-> << [year |-> year, duration |-> duration] >>]
    ELSE [threw |-> TRUE, renders |-> <<>>]

\* onScroll({ state: { yearProgress }, sectionConfig: { graph, data: { yearProgressScale } } })
\* of part_000: destructuring a missing state is a TypeError
onScroll(args) ==
  IF "state" \notin DOMAIN args
    THEN [threw |-> TRUE, renders |-> <<>>]
    ELSE IF args.state.yearProgress # "undefined"
      THEN GraphRender(sectionList[args.sectionConfig].graph, args.state.yearProgress, 100)
      ELSE [threw |-> FALSE, renders |-> <<>>]

\* onActivateNarration({ graphId, state: { year, snippet }, sectionConfig: { graph } })
\* of part_000
onActivateNarration(args) ==
  IF "state" \notin DOMAIN args
    THEN [threw |-> TRUE, renders |-> <<>>]
    ELSE GraphRender(sectionList[args.sectionConfig].graph, args.state.year, 1000)

\* the call target(args): `target` is the section's function, or lodash's
\* noop when the section defines none
Invoke(fn, target, args) ==
  LET result ==
        IF target = "onScroll" THEN onScroll(args)
        ELSE IF target = "onActivateNarration" THEN onActivateNarration(args)
        ELSE [threw |-> FALSE, renders |-> <<>>]
  IN [ fn |-> fn,
       target |-> IF target = "undefined" THEN "noop" ELSE target,
       args |-> args,
       threw |-> result.threw,
       renders |-> result.renders ]

(***************************************************************************)
(* The three handlers registered in _buildScrollamaContainers              *)
(***************************************************************************)
Element(s, i) == [section |-> s, index |-> i]

StepEvent(kind, s, i, direction, progress) ==
  [kind |-> kind, section |-> s, index |-> i,
   direction |-> direction, progress |-> progress]

\* const { trigger } = narration[index], without the default
TriggerNoDefault(narration, index) == narration.rows[index + 1].trigger

\* const { trigger = '' } = narration[index]
Trigger(narration, index) ==
  LET row == narration.rows[index + 1]
  IN IF row.hasTrigger THEN row.trigger ELSE ""

\* the argument object built from variables shared by all sections' handlers
\* (the values of the last iteration of the forEach)
CallbackArgsLastSection(s, element, index, direction, progress) ==
  [ index |-> index,
    progress |-> progress,
    element |-> element,
    trigger |-> Trigger(sectionList[NumSections].narration, index),
    direction |-> direction,
    graphId |-> graphId(sectionList[NumSections].sectionIdentifier),
    sectionConfig |-> NumSections ]

\* the argument object of both callbacks
CallbackArgs(s, element, index, direction, progress) ==
  [ index |-> index,
    progress |-> progress,
    element |-> element,
    trigger |-> Trigger(sectionList[s].narration, index),
    direction |-> direction,
    graphId |-> graphId(sectionList[s].sectionIdentifier),
    sectionConfig |-> s ]

\* select(element).classed('active', flag)
Classed(element, flag) ==
  [active EXCEPT ![element.section][element.index] = flag]

\* an enter handler that marks the element but dispatches nothing
onStepEnterNoDispatch(s, element, index, direction) ==
  /\ active' = Classed(element, TRUE)
  /\ calls' = <<>>
  /\ threw' = FALSE
  /\ UNCHANGED activated

\* an enter handler that catches the callback's exception and takes the
\* active class back
onStepEnterCatches(s, element, index, direction) ==
  LET call == Invoke("onActivateNarrationFunction",
                     sectionList[s].onActivateNarrationFunction,
                     CallbackArgs(s, element, index, direction, 0))
  IN /\ active' = IF call.threw THEN Classed(element, FALSE)
                                ELSE Classed(element, TRUE)
     /\ calls' = <<call>>
     /\ threw' = FALSE
     /\ activated' = [activated EXCEPT ![s][call.args.index] = TRUE]

\* .onStepEnter(({ element, index, direction }) => ...)
onStepEnter(s, element, index, direction) ==
  LET call == Invoke("onActivateNarrationFunction",
                     sectionList[s].onActivateNarrationFunction,
                     CallbackArgs(s, element, index, direction, 0))
  IN /\ active' = Classed(element, TRUE)
     /\ calls' = <<call>>
     /\ threw' = call.threw
     /\ activated' = [activated EXCEPT ![s][call.args.index] = TRUE]

\* an exit handler that clears the active class of every block of the section
onStepExitClearsSection(s, element) ==
  /\ active' = [active EXCEPT ![element.section] = [i \in StepIndex |-> FALSE]]
  /\ calls' = <<>>
  /\ threw' = FALSE
  /\ activated' = [activated EXCEPT ![element.section][element.index] = FALSE]

\* .onStepExit(({ element }) => ...)
onStepExit(s, element) ==
  /\ active' = Classed(element, FALSE)
  /\ calls' = <<>>
  /\ threw' = FALSE
  /\ activated' = [activated EXCEPT ![element.section][element.index] = FALSE]

\* a progress handler that clamps the reported progress to [0,1]
onStepProgressClamped(s, element, index, direction, progress) ==
  LET call == Invoke("onScrollFunction",
                     sectionList[s].onScrollFunction,
                     CallbackArgs(s, element, index, direction,
                                  IF progress > 100 THEN 100 ELSE progress))
  IN /\ calls' = <<call>>
     /\ threw' = call.threw
     /\ UNCHANGED <<active, activated>>

\* a progress handler that takes the active class off a completed step
onStepProgressDeactivatesAtEnd(s, element, index, direction, progress) ==
  LET call == Invoke("onScrollFunction",
                     sectionList[s].onScrollFunction,
                     CallbackArgs(s, element, index, direction, progress))
  IN /\ calls' = <<call>>
     /\ threw' = call.threw
     /\ active' = IF progress >= 100 THEN Classed(element, FALSE) ELSE active
     /\ UNCHANGED activated

\* .onStepProgress(({ element, index, direction, progress }) => ...)
onStepProgress(s, element, index, direction, progress) ==
  LET call == Invoke("onScrollFunction",
                     sectionList[s].onScrollFunction,
                     CallbackArgs(s, element, index, direction, progress))
  IN /\ calls' = <<call>>
     /\ threw' = call.threw
     /\ UNCHANGED <<active, activated>>

(***************************************************************************)
(* The scroll observer (scrollama): per step, idle -> enter -> idle; it    *)
(* reports progress only for a step it has entered.  Events are delivered  *)
(* one at a time, once the synchronous tail of render() has ended.         *)
(***************************************************************************)
Observing(s) ==
  /\ pc \in {"resolved", "rejected"}
  /\ sectionList[s].scroller.kind = "scrollama"
  /\ sectionBuilt[s]

renderVars == <<config, teller, sectionList, pc, narrationFetch, dataFetch,
                settled, renderError, sectionBuilt>>

\* the observer finds step i of section s crossing into the offset line
ScrollamaEnters(s, i) ==
  /\ Observing(s)
  /\ stepState[s][i] = "idle"
  /\ stepState' = [stepState EXCEPT ![s][i] = "enter"]

\* the observer finds step i of section s leaving the offset line
ScrollamaExits(s, i) ==
  /\ Observing(s)
  /\ stepState[s][i] = "enter"
  /\ stepState' = [stepState EXCEPT ![s][i] = "idle"]

\* the observer measures the progress of an entered step
ScrollamaProgresses(s, i) ==
  /\ Observing(s)
  /\ stepState[s][i] = "enter"
  /\ UNCHANGED stepState

\* an enter handler that sets the section's scroller up again
StepEnterResetsScroller(s, i, direction) ==
  /\ ScrollamaEnters(s, i)
  /\ lastEvent' = StepEvent("enter", s, i, direction, 0)
  /\ onStepEnter(s, Element(s, i), i, direction)
  /\ sectionList' = [sectionList EXCEPT ![s].scroller =
       [Scrollama(sectionList[s].sectionIdentifier) EXCEPT !.progress = FALSE]]
  /\ UNCHANGED <<config, teller, pc, narrationFetch, dataFetch, settled,
                 renderError, sectionBuilt>>

StepEnter(s, i, direction) ==
  /\ ScrollamaEnters(s, i)
  /\ lastEvent' = StepEvent("enter", s, i, direction, 0)
  /\ onStepEnter(s, Element(s, i), i, direction)
  /\ UNCHANGED renderVars

StepExit(s, i, direction) ==
  /\ ScrollamaExits(s, i)
  /\ lastEvent' = StepEvent("exit", s, i, direction, 0)
  /\ onStepExit(s, Element(s, i))
  /\ UNCHANGED renderVars

StepProgress(s, i, direction, progress) ==
  /\ ScrollamaProgresses(s, i)
  /\ lastEvent' = StepEvent("progress", s, i, direction, progress)
  /\ onStepProgress(s, Element(s, i), i, direction, progress)
  /\ UNCHANGED renderVars

Next ==
  \/ Constructor
  \/ RenderStart
  \/ \E s \in Sections, ok \in BOOLEAN : NarrationSettle(s, ok)
  \/ RenderAfterNarration
  \/ \E s \in Sections, ok \in BOOLEAN : DataSettle(s, ok)
  \/ RenderAfterData
  \/ BuildSections
  \/ BuildScrollamaContainers
  \/ BuildGraphs
  \/ \E s \in Sections, i \in StepIndex, d \in Directions : StepEnter(s, i, d)
  \/ \E s \in Sections, i \in StepIndex, d \in Directions : StepExit(s, i, d)
  \/ \E s \in Sections, i \in StepIndex, d \in Directions, p \in ProgressValues :
       StepProgress(s, i, d, p)

Spec == Init /\ [][Next]_vars

\* the steps render() takes by itself: the continuations of its two awaits,
\* which the event loop runs once the awaited promise has settled, and the
\* synchronous statements of lines 123-125
RenderContinues ==
  \/ RenderAfterNarration
  \/ RenderAfterData
  \/ BuildSections
  \/ BuildScrollamaContainers
  \/ BuildGraphs

\* the program with a render() that is not left suspended once it can go on;
\* whether a source ever settles is left open
FairSpec == Init /\ [][Next]_vars /\ WF_vars(RenderContinues)

(***************************************************************************)
(* Properties                                                              *)
(***************************************************************************)
ActiveSteps(s) == {i \in StepIndex : active[s][i]}

NothingRendered ==
  \A s \in Sections :
    /\ ~sectionBuilt[s]
    /\ sectionList[s].graph.kind = "undefined"
    /\ sectionList[s].scroller.kind = "undefined"

\* C1: in every reachable state at most one narration element of a section
\* carries the active flag (a StepEnter deactivates any other element of the
\* section that was still active).
C1_AtMostOneActive ==
  \A s \in Sections : Cardinality(ActiveSteps(s)) <= 1

\* C2: every argument object passed to onScrollFunction or
\* onActivateNarrationFunction of a section with convertTriggerToObject
\* enabled carries a state field.
C2_ArgsCarryState ==
  \A k \in 1..Len(calls) :
    sectionList[calls[k].args.sectionConfig].convertTriggerToObject
      => "state" \in DOMAIN calls[k].args

\* C3: a StepEnter event invokes the section's onActivateNarrationFunction
\* exactly once, with progress 0, the event's index, element and direction,
\* the trigger of the narration row at that index ('' when the row has
\* none), and the section's graphId and sectionConfig; a section without
\* onActivateNarrationFunction handles the event without error.
C3_EnterDispatch ==
  lastEvent.kind = "enter" =>
    LET s == lastEvent.section
        row == sectionList[s].narration.rows[lastEvent.index + 1]
    IN /\ Len(calls) = 1
       /\ calls[1].fn = "onActivateNarrationFunction"
       /\ calls[1].target =
            IF sectionList[s].onActivateNarrationFunction = "undefined"
              THEN "noop" ELSE sectionList[s].onActivateNarrationFunction
       /\ calls[1].args.progress = 0
       /\ calls[1].args.index = lastEvent.index
       /\ calls[1].args.element = [section |-> s, index |-> lastEvent.index]
       /\ calls[1].args.direction = lastEvent.direction
       /\ calls[1].args.trigger = IF row.hasTrigger THEN row.trigger ELSE ""
       /\ calls[1].args.graphId = <<"graph", sectionList[s].sectionIdentifier>>
       /\ calls[1].args.sectionConfig = s
       /\ (sectionList[s].onActivateNarrationFunction = "undefined" => ~threw)

\* C3 witness: the second step of a section is entered upwards and the
\* section's own activation callback has been called with its trigger.
C3_Witness ==
  /\ lastEvent.kind = "enter"
  /\ lastEvent.index = 1
  /\ lastEvent.direction = "up"
  /\ Len(calls) = 1
  /\ calls[1].target = "userOnActivate"
  /\ calls[1].args.trigger = "yearProgress:1"

\* C4: a StepProgress event invokes the section's onScrollFunction exactly
\* once with the reported index, element, direction and progress unchanged
\* (no clamping), the trigger of the narration row at that index, and the
\* section's graphId and sectionConfig.
C4_ProgressDispatch ==
  lastEvent.kind = "progress" =>
    LET s == lastEvent.section
        row == sectionList[s].narration.rows[lastEvent.index + 1]
    IN /\ Len(calls) = 1
       /\ calls[1].fn = "onScrollFunction"
       /\ calls[1].target =
            IF sectionList[s].onScrollFunction = "undefined"
              THEN "noop" ELSE sectionList[s].onScrollFunction
       /\ calls[1].args.progress = lastEvent.progress
       /\ calls[1].args.index = lastEvent.index
       /\ calls[1].args.element = [section |-> s, index |-> lastEvent.index]
       /\ calls[1].args.direction = lastEvent.direction
       /\ calls[1].args.trigger = IF row.hasTrigger THEN row.trigger ELSE ""
       /\ calls[1].args.graphId = <<"graph", sectionList[s].sectionIdentifier>>
       /\ calls[1].args.sectionConfig = s

\* C4 witness: a progress report outside [0,1] has reached a section's own
\* onScrollFunction.
C4_Witness ==
  /\ lastEvent.kind = "progress"
  /\ lastEvent.progress > 100
  /\ Len(calls) = 1
  /\ calls[1].target = "userOnScroll"
  /\ calls[1].args.progress > 100

\* C5: onScrollFunction is invoked for a step index only if the activation
\* callback has been dispatched for that index since the step's last
\* StepExit, and the step's element is active at that moment.
C5_EnterPrecedesProgress ==
  \A k \in 1..Len(calls) :
    calls[k].fn = "onScrollFunction" =>
      /\ activated[calls[k].args.sectionConfig][calls[k].args.index]
      /\ active[calls[k].args.element.section][calls[k].args.element.index]

\* C5 witness: a section's own onScrollFunction runs for an activated step
\* while another step of the same section is not activated.
C5_Witness ==
  /\ Len(calls) = 1
  /\ calls[1].fn = "onScrollFunction"
  /\ calls[1].target = "userOnScroll"
  /\ activated[lastEvent.section][lastEvent.index]
  /\ \E i \in StepIndex : ~activated[lastEvent.section][i]

\* C6: the only effect of a StepExit event is that the exited element no
\* longer carries the active flag; no callback is invoked by the exit.
C6_ExitFrame ==
  [][(lastEvent'.kind = "exit" /\ lastEvent' # lastEvent) =>
       /\ active' = [active EXCEPT
                       ![lastEvent'.section][lastEvent'.index] = FALSE]
       /\ calls' = <<>>
       /\ ~threw'
       /\ UNCHANGED renderVars
    ]_vars

\* C6 witness: a step has been exited while another element of the same
\* section is still active.
C6_Witness ==
  /\ lastEvent.kind = "exit"
  /\ ~active[lastEvent.section][lastEvent.index]
  /\ ActiveSteps(lastEvent.section) # {}

\* C7 (as stated): once render() has resolved, narration and data of every
\* section are arrays, whatever reshapeDataFunction returns.
C7_NarrationAndDataAreArrays ==
  pc = "resolved" =>
    \A s \in Sections :
      /\ IsArray(sectionList[s].narration)
      /\ IsArray(sectionList[s].data)

\* C7 (amended): once render() has resolved, the narration of every section
\* is an array; the data of a section without reshapeDataFunction is an
\* array; the data of a section of part_000 is the object its
\* reshapeDataFunction returned, holding the resolved array as dataArray.
C7_ResolvedShapes ==
  pc = "resolved" =>
    \A s \in Sections :
      /\ IsArray(sectionList[s].narration)
      /\ Len(sectionList[s].narration.rows) = NumSteps
      /\ sectionList[s].reshapeDataFunction = "undefined"
           => IsArray(sectionList[s].data)
      /\ sectionList[s].reshapeDataFunction = "processData"
           => /\ sectionList[s].data.kind = "object"
              /\ IsArray(sectionList[s].data.dataArray)
              /\ IsArray(sectionList[s].data.legendArray)

\* C7 witness: render() has resolved with a section whose data came from a
\* path through reshapeDataFunction and a section whose data was undefined.
C7_Witness ==
  /\ pc = "resolved"
  /\ \E s \in Sections : sectionList[s].data.kind = "object"
  /\ \E s \in Sections :
       /\ IsArray(sectionList[s].data)
       /\ sectionList[s].data.rows = <<>>

\* C8: for every section the graph is built (sectionConfig.graph set) before
\* that section's scroll observer is created (sectionConfig.scroller set).
C8_GraphBeforeScroller ==
  \A s \in Sections :
    sectionList[s].scroller.kind # "undefined"
      => sectionList[s].graph.kind # "undefined"

\* C9: as long as the data of some section has not resolved, no section's
\* DOM, scroll observer or graph is built and render() has not completed.
C9_NoBuildBeforeAllData ==
  (\E s \in Sections : dataFetch[s] # "resolved") =>
    /\ NothingRendered
    /\ pc \in {"new", "invalid", "constructed", "fetchNarration", "fetchData",
              "rejected"}

\* C9 witness: the data of one section has resolved while the data of
\* another is still in flight, and nothing is built.
C9_Witness ==
  /\ pc = "fetchData"
  /\ \E s, t \in Sections :
       /\ dataFetch[s] = "resolved"
       /\ dataFetch[t] = "pending"
  /\ NothingRendered

\* C10: if the narration or data resolution of any section has failed,
\* render() does not resolve and nothing is rendered: no section DOM, no
\* graph, no scroll observer, for any section.
C10_FailureRendersNothing ==
  (\E s \in Sections : narrationFetch[s] = "failed" \/ dataFetch[s] = "failed") =>
    /\ NothingRendered
    /\ pc \in {"fetchNarration", "fetchData", "rejected"}

\* C10 witness: render() has rejected after one section's data failed while
\* another section's data resolved.
C10_Witness ==
  /\ pc = "rejected"
  /\ \E s, t \in Sections :
       /\ dataFetch[s] = "failed"
       /\ dataFetch[t] = "resolved"
  /\ NothingRendered

C12_TwoPhases ==
  /\ (\E s \in Sections : narrationFetch[s] # "unstarted")
       => \A s \in Sections : narrationFetch[s] # "unstarted"
  /\ (\E s \in Sections : dataFetch[s] # "unstarted")
       => /\ \A s \in Sections : dataFetch[s] # "unstarted"
          /\ \A s \in Sections : narrationFetch[s] = "resolved"

\* C12 witness: every narration has resolved and the data resolutions of
\* all sections are in flight at once.
C12_Witness ==
  /\ pc = "fetchData"
  /\ \A s \in Sections : narrationFetch[s] = "resolved"
  /\ \A s \in Sections : dataFetch[s] = "pending"

\* C13: the constructor of an invalid configuration fails before anything
\* is assigned to a section or to the instance and before any resolution
\* starts, and nothing can be done with the failed construction.
C13_InvalidConfigFailsFirst ==
  [][ /\ (pc = "new" /\ ~ValidConfig(config, sectionList)) =>
           /\ pc' = "invalid"
           /\ UNCHANGED <<sectionList, teller, narrationFetch, dataFetch>>
      /\ pc = "invalid" => UNCHANGED vars
    ]_vars

\* C13 witness: the constructor has failed on a list with a duplicate
\* sectionIdentifier, and no section has an appContainerId or cssNames.
C13_Witness ==
  /\ pc = "invalid"
  /\ \E s, u \in Sections :
       s # u /\ sectionList[s].sectionIdentifier = sectionList[u].sectionIdentifier
  /\ \A s \in Sections :
       /\ IsUndefined(sectionList[s].appContainerId)
       /\ IsUndefined(sectionList[s].cssNames)
       /\ IsUndefined(sectionList[s].showSpacers)

\* C14: an exception of a user callback escapes the handler; the callback
\* is not called again, an element the StepEnter marked active stays
\* active, and the observer goes on delivering events of the section.
C14_CallbackExceptionEscapes ==
  (\E k \in 1..Len(calls) : calls[k].threw) =>
    LET s == lastEvent.section
        i == lastEvent.index
    IN /\ threw
       /\ Len(calls) = 1
       /\ lastEvent.kind = "enter" => active[s][i]
       /\ ENABLED StepProgress(s, i, "down", 50)
       /\ ENABLED StepExit(s, i, "down")

\* C14 witness: the activation callback of part_000 has thrown during a
\* StepEnter and the entered element is active.
C14_Witness ==
  /\ lastEvent.kind = "enter"
  /\ threw
  /\ Len(calls) = 1
  /\ calls[1].target = "onActivateNarration"
  /\ active[lastEvent.section][lastEvent.index]

\* C15: every graph.render call of a scroll-progress event has duration
\* 100, and every narration activation makes exactly one graph.render call,
\* with duration 1000 (callbacks of part_000).
C15_RenderDurations ==
  \A k \in 1..Len(calls) :
    /\ calls[k].target = "onScroll" =>
         \A r \in 1..Len(calls[k].renders) : calls[k].renders[r].duration = 100
    /\ calls[k].target = "onActivateNarration" =>
         /\ Len(calls[k].renders) = 1
         /\ calls[k].renders[1].duration = 1000

\* C16: a StepProgress event leaves the set of active narration elements
\* as it was.
C16_ProgressKeepsActive ==
  [][(lastEvent'.kind = "progress" /\ lastEvent' # lastEvent) => active' = active]_vars

\* C16 witness: a progress report at the end of a step has been handled,
\* the step's element is active and another element of the section is not.
C16_Witness ==
  /\ lastEvent.kind = "progress"
  /\ lastEvent.progress >= 100
  /\ active[lastEvent.section][lastEvent.index]
  /\ \E i \in StepIndex : ~active[lastEvent.section][i]

\* C17: handling a StepEnter, StepExit or StepProgress event leaves
\* narration, data, graph and scroller of every section unchanged.
C17_EventsKeepDerivedFields ==
  [][lastEvent' # lastEvent =>
       \A s \in Sections :
         /\ sectionList'[s].narration = sectionList[s].narration
         /\ sectionList'[s].data = sectionList[s].data
         /\ sectionList'[s].graph = sectionList[s].graph
         /\ sectionList'[s].scroller = sectionList[s].scroller
    ]_vars

\* C17 witness: render() has resolved and an event has been handled.
C17_Witness ==
  /\ pc = "resolved"
  /\ lastEvent.kind = "enter"
  /\ sectionList[lastEvent.section].graph.kind = "graph"
  /\ sectionList[lastEvent.section].scroller.kind = "scrollama"

\* C18: whenever a callback is invoked by a scroll event, the graph of its
\* section has been assigned.
C18_GraphBuiltBeforeCallbacks ==
  \A k \in 1..Len(calls) :
    sectionList[calls[k].args.sectionConfig].graph.kind = "graph"

\* C19: every section has its own scroll observer; an event of a section
\* invokes that section's callback with that section's graphId,
\* sectionConfig and narration row, and changes no active flag of another
\* section.
C19_SectionsIsolated ==
  [][lastEvent' # lastEvent =>
       LET s == lastEvent'.section
           row == sectionList[s].narration.rows[lastEvent'.index + 1]
       IN /\ \A u \in Sections \ {s} :
               /\ active'[u] = active[u]
               /\ sectionList[u].scroller # sectionList[s].scroller
          /\ \A k \in 1..Len(calls') :
               /\ calls'[k].args.sectionConfig = s
               /\ calls'[k].args.graphId = <<"graph", sectionList[s].sectionIdentifier>>
               /\ calls'[k].args.element.section = s
               /\ calls'[k].args.trigger = IF row.hasTrigger THEN row.trigger ELSE ""
               /\ calls'[k].target \in
                    { "noop", sectionList[s].onScrollFunction,
                      sectionList[s].onActivateNarrationFunction }
    ]_vars

\* C19 witness: an event of the first section has been handled while an
\* element of another section is active.
C19_Witness ==
  /\ lastEvent.section = 1
  /\ Len(calls) = 1
  /\ calls[1].args.sectionConfig = 1
  /\ \E u \in Sections \ {1} : ActiveSteps(u) # {}

\* C20: if the narration and the data of every section eventually resolve
\* and no buildGraphFunction throws, render() eventually resolves with the
\* DOM, the scroller and the graph of every section built.
C20_RenderEventuallyResolves ==
  <>(/\ \A s \in Sections : narrationFetch[s] = "resolved"
     /\ \A s \in Sections : dataFetch[s] = "resolved"
     /\ \A s \in Sections : ~GraphThrows(s))
  => <>(/\ pc = "resolved"
        /\ \A s \in Sections :
             /\ sectionBuilt[s]
             /\ sectionList[s].scroller.kind = "scrollama"
             /\ sectionList[s].graph.kind = "graph")

\* C20 witness: render() has resolved on a list of sections whose sources
\* were awaited and none of whose buildGraphFunctions throws, and every
\* section has its graph.
C20_Witness ==
  /\ pc = "resolved"
  /\ \E s \in Sections : sectionList[s].narration.kind = "array"
  /\ \A s \in Sections : ~GraphThrows(s)
  /\ \A s \in Sections : dataFetch[s] = "resolved"
  /\ \A s \in Sections : sectionList[s].graph.kind = "graph"
  /\ lastEvent = NoEvent
====
